---- MODULE Spec2Model ----
(***************************************************************************)
(* Model of iris::RenderQueueBuilder (render_queue_builder.cpp, stored in  *)
(* src/src/graphics/opengl/opengl_texture_manager.cpp lines 97-495).       *)
(*                                                                         *)
(* One build() call is unrolled into its loop iterations: BuildBegin, one  *)
(* InjectPass per input pass, InsertPreProcess, one ExpandPass per pass,   *)
(* one EncodePass per pass of the final list, and Present.                 *)
(***************************************************************************)
EXTENDS Integers, Sequences, FiniteSets, TLC

(* ---------------------------- bounds ---------------------------------- *)
\* Size of the largest input of build(): the entities, point lights and
\* directional lights of the caller's scene, the passes of the list, the
\* members of the passes that differ from a default pass, and the bloom
\* iterations, all counted together.
MaxSize == 5

(* ------------------------ program constants --------------------------- *)
\* nullptr
Null == 0
\* side of a shadow map render target
ShadowMapSize == 1024
\* width_ and height_ handed to the constructor
Width == 4
Height == 3

(* --------------------------- references ------------------------------- *)
\* Scenes are referred to by number: 0 is the caller's scene, k > 0 is the
\* scene stored in pass_data_[k].
CallerScene == 0

\* Render targets are numbers: 0 is nullptr, 3i-2, 3i-1, 3i are the colour,
\* normal and position targets the caller gave input pass i, and the k-th
\* target made by a callback is CallerTargets + k.
CallerTargets == 3 * MaxSize
CallerColour(i) == 3 * i - 2
CallerNormal(i) == 3 * i - 1
CallerPosition(i) == 3 * i
TargetId(k) == CallerTargets + k

NoLight == [type |-> "NONE", scene |-> 0, idx |-> 0]
NoEntity == [scene |-> 0, idx |-> 0]
NoMaterial == [rg |-> "none", entity |-> NoEntity, target |-> Null,
               light_type |-> "NONE", needs_normal |-> FALSE, needs_position |-> FALSE]

\* Cameras: a pass holds a pointer; the pointee is a caller camera, a light's
\* shadow camera or the camera stored in pass_data_[k].
CallerCamera(i) == [kind |-> "caller", id |-> i]
ShadowCamera(j) == [kind |-> "shadow", id |-> j]
DataCamera(k) == [kind |-> "data", id |-> k]
NoCamera == [kind |-> "none", id |-> 0]

\* Camera values.  copy_of names the caller camera a value was copied from.
PerspectiveCamera(i) == [type |-> "PERSPECTIVE", width |-> 0, height |-> 0, copy_of |-> i]
OrthographicCamera(w, h) == [type |-> "ORTHOGRAPHIC", width |-> w, height |-> h, copy_of |-> 0]

(* ------------------------- pass descriptors --------------------------- *)
\* PostProcessingDescription: bloom is an optional, <<>> or <<iterations>>.
EmptyDescription ==
    [bloom |-> <<>>, colour_adjust |-> FALSE, anti_aliasing |-> FALSE, ambient_occlusion |-> FALSE]

\* RenderPass{.scene = s, .camera = c}: every other member default initialised.
DefaultPass(s, c) ==
    [scene |-> s, camera |-> c,
     colour_target |-> Null, normal_target |-> Null, position_target |-> Null,
     depth_only |-> FALSE, clear_colour |-> TRUE, clear_depth |-> TRUE,
     post_processing_description |-> EmptyDescription, sky_box |-> FALSE]

Descriptions ==
    [bloom : {<<>>} \cup {<<n>> : n \in 0..MaxSize},
     colour_adjust : BOOLEAN, anti_aliasing : BOOLEAN, ambient_occlusion : BOOLEAN]

\* An input pass as the caller may hand it to build(): pass i renders the
\* caller's scene with the caller's i-th camera into the caller's i-th colour
\* target.
InputPasses(i) ==
    [scene : {CallerScene}, camera : {CallerCamera(i)},
     colour_target : {CallerColour(i)},
     normal_target : {Null, CallerNormal(i)},
     position_target : {Null, CallerPosition(i)},
     depth_only : BOOLEAN, clear_colour : BOOLEAN, clear_depth : BOOLEAN,
     post_processing_description : Descriptions, sky_box : BOOLEAN]

B2N(b) == IF b THEN 1 ELSE 0

\* size of an input pass: one, plus the members that differ from the default
\* pass, plus the bloom iterations
PassSize(p) ==
    1 + B2N(p.normal_target # Null) + B2N(p.position_target # Null)
    + B2N(p.depth_only) + B2N(~p.clear_colour) + B2N(~p.clear_depth)
    + B2N(p.sky_box)
    + (IF p.post_processing_description.bloom # <<>>
       THEN 1 + p.post_processing_description.bloom[1] ELSE 0)
    + B2N(p.post_processing_description.colour_adjust)
    + B2N(p.post_processing_description.anti_aliasing)
    + B2N(p.post_processing_description.ambient_occlusion)

\* the passes of each size the caller may give as first pass of a list
PassesOfSize == [w \in 1..MaxSize |-> {q \in InputPasses(1) : PassSize(q) = w}]

\* pass q given as i-th pass of a list
AsPass(q, i) ==
    [q EXCEPT !.camera = CallerCamera(i),
              !.colour_target = CallerColour(i),
              !.normal_target = IF @ = Null THEN Null ELSE CallerNormal(i),
              !.position_target = IF @ = Null THEN Null ELSE CallerPosition(i)]

RECURSIVE ListsOfSize(_)
\* the input pass lists of size w
ListsOfSize(w) ==
    IF w = 0 THEN {<<>>}
    ELSE UNION {{Append(ps, AsPass(p, Len(ps) + 1)) :
                    ps \in ListsOfSize(w - k), p \in PassesOfSize[k]} : k \in 1..w}

\* the input pass lists of size MaxSize at most
InputLists == UNION {ListsOfSize(w) : w \in 0..MaxSize}

RECURSIVE ListSize(_)
ListSize(ps) == IF ps = <<>> THEN 0 ELSE PassSize(Head(ps)) + ListSize(Tail(ps))

(* ------------------------------ scenes -------------------------------- *)
\* An entity of the caller's scene: its render graph and receive_shadow().
UserEntity(r) == [rg |-> "user", receive_shadow |-> r]

BoolSeqs(n) == UNION {[1..k -> BOOLEAN] : k \in 0..n}

\* The caller's scene: entities in iteration order, the number of point
\* lights, and casts_shadows() of each directional light in collection order.
Scene(rs, p, ds) ==
    [entities |-> [i \in 1..Len(rs) |-> UserEntity(rs[i])],
     point_lights |-> p, directional_lights |-> ds]

SceneSize(s) == Len(s.entities) + s.point_lights + Len(s.directional_lights)

\* the scenes of size MaxSize at most
Scenes ==
    UNION {UNION {{Scene(rs, p, ds) : rs \in [1..e -> BOOLEAN],
                                      ds \in BoolSeqs(MaxSize - e - p)} :
                      p \in 0..(MaxSize - e)} : e \in 0..MaxSize}

\* the scenes of each size
ScenesOfSize == [b \in 0..MaxSize |-> {s \in Scenes : SceneSize(s) = b}]

\* the scenes of size w at most
InputScenes(w) == UNION {ScenesOfSize[b] : b \in 0..w}

(* ------------------------------- state -------------------------------- *)
VARIABLES
    scene,              \* the caller's Scene (entities and lighting rig)
    render_passes,      \* the deque handed to build(), rewritten in place
    initial_passes,     \* build(): copy of the input, then the list to expand
    pre_process_passes, \* build(): synthesized shadow and SSAO passes
    shadow_maps,        \* build(): directional light -> shadow map target
    pass_data_,         \* builder member: scenes and cameras of synthesized passes
    targets,            \* every target made by the two target callbacks, in order
    cmd,                \* build(): the command object mutated as encoding goes
    render_queue,       \* build(): the command sequence
    queue_step,         \* history: the encoding step that pushed each command
    encoded_entities,   \* history: entities of the scene as each pass was encoded
    input,              \* history: the pass list and scene as first given to build()
    calls,              \* history: the build() calls before this one
    id_pool_,           \* OpenGLTextureManager member: stack of free ids, top last
    objects,            \* the textures and cube maps created, in creation order
    outcome,            \* history: the last operation on the texture manager
    pc,                 \* position in build()
    idx                 \* index of the current loop

vars == <<scene, render_passes, initial_passes, pre_process_passes, shadow_maps,
          pass_data_, targets, cmd, render_queue, queue_step, encoded_entities, input,
          calls, id_pool_, objects, outcome, pc, idx>>

\* the state of the render queue builder and of its caller
builder == <<scene, render_passes, initial_passes, pre_process_passes, shadow_maps,
             pass_data_, targets, cmd, render_queue, queue_step, encoded_entities, input,
             calls, pc, idx>>

\* the state of the texture manager and of its objects
manager == <<id_pool_, objects, outcome>>

(* -------------------------- OpenGLTextureManager ---------------------- *)
\* ids the constructor puts in the pool (79 in the source, line 30)
PoolSize == 3

\* textures and cube maps created in one behaviour
MaxObjects == 4

\* first texture unit of OpenGL
GL_TEXTURE0 == 33984

\* lines 30-33: GL_TEXTURE0 + PoolSize is pushed first, GL_TEXTURE0 + 1 last
InitialPool == [i \in 1..PoolSize |-> GL_TEXTURE0 + (PoolSize + 1 - i)]

\* lines 26-34
ManagerInit ==
    /\ id_pool_ = InitialPool
    /\ objects = <<>>
    /\ outcome = [op |-> "none", failed |-> FALSE, live |-> 0, made |-> 0]


\* RenderCommand{}
DefaultCommand ==
    [type |-> "PASS_START", render_pass |-> 0, material |-> NoMaterial,
     render_entity |-> NoEntity, light |-> NoLight, shadow_map |-> Null]

\* State after constructing the builder; the caller holds a scene and a list
\* of passes for it, of size w at most together.
InitOfSize(w) ==
    /\ render_passes \in {ps \in InputLists : ListSize(ps) <= w}
    /\ scene \in InputScenes(w - ListSize(render_passes))
    /\ initial_passes = <<>>
    /\ pre_process_passes = <<>>
    /\ shadow_maps = <<>>
    /\ pass_data_ = <<>>
    /\ targets = <<>>
    /\ cmd = DefaultCommand
    /\ render_queue = <<>>
    /\ queue_step = <<>>
    /\ encoded_entities = <<>>
    /\ input = [passes |-> render_passes, scene |-> scene]
    /\ calls = [fresh |-> TRUE, earlier |-> <<>>]
    /\ pc = "begin"
    /\ idx = 0
    /\ ManagerInit

Init == InitOfSize(MaxSize)

(* ---------------------------- collaborators --------------------------- *)
\* create_render_target_callback_(w, h): a new target, never seen before
NewTarget(tg, w, h) ==
    Append(tg, [kind |-> "rt", width |-> w, height |-> h, colour |-> Null, depth |-> Null])

\* create_hybrid_render_target_callback_(colour, depth): a new target
NewHybridTarget(tg, c, d) ==
    Append(tg, [kind |-> "hybrid", width |-> 0, height |-> 0, colour |-> c, depth |-> d])

\* the target created last
LastTarget(tg) == TargetId(Len(tg))

\* create_material_callback_: the material is identified by the arguments
CreateMaterial(rg, entity, target, light_type, nn, np) ==
    [rg |-> rg, entity |-> entity, target |-> target, light_type |-> light_type,
     needs_normal |-> nn, needs_position |-> np]

\* Scene::create_entity: the entity joins the scene's entity collection
CreateEntity(entities, e) == Append(entities, e)

\* SingleEntity(rg, mesh, transform).  receive_shadow() of a new entity is
\* set by a constructor outside these sources, so both values are allowed
\* where it is read; the quad of a synthesized pass is never asked for it,
\* its scene having no directional light.
SingleEntity(rg, rs) == [rg |-> rg, receive_shadow |-> rs]

(* ------------------------------ add_pass ------------------------------ *)
\* the pass before the new one keeps the colour target it had
WirePassSkipped(passes, target) == passes

\* line 425: the last pass now renders into the new target
WirePass(passes, target) == [passes EXCEPT ![Len(passes)].colour_target = target]

\* st = [passes, pass_data, targets, ret]; the render graph callback is given
\* by its node and by the textures it reads besides target->colour_texture().
AddPass(st, node, before, after) ==
    LET tg == NewTarget(st.targets, Width, Height)
        target == LastTarget(tg)
        k == Len(st.pass_data) + 1
        data == [scene |-> [entities |-> CreateEntity(<<>>, SingleEntity("stage", TRUE)),
                            point_lights |-> 0,
                            directional_lights |-> <<>>,
                            graph |-> [node |-> node, inputs |-> before \o <<target>> \o after]],
                 camera |-> OrthographicCamera(Width, Height)]
    IN  [passes |-> Append(WirePass(st.passes, target), DefaultPass(k, DataCamera(k))),
         pass_data |-> Append(st.pass_data, data),
         targets |-> tg,
         ret |-> target]

\* the value of the camera a pass points at
CameraValue(c, pd) ==
    IF c.kind = "data" THEN pd[c.id].camera
    ELSE IF c.kind = "shadow" THEN OrthographicCamera(0, 0)
    ELSE PerspectiveCamera(c.id)

(* ------------------------------- build -------------------------------- *)
\* lines 237-241
BuildBegin ==
    /\ pc = "begin"
    /\ initial_passes' = render_passes
    /\ render_passes' = <<>>
    /\ shadow_maps' = <<>>
    /\ pre_process_passes' = <<>>
    /\ pc' = "inject"
    /\ idx' = 1
    /\ UNCHANGED <<scene, pass_data_, targets, cmd, render_queue, queue_step,
                   encoded_entities, input, calls, manager>>

\* Scene of a pass: entities and lighting rig
SceneOf(s, pd) == IF s = CallerScene THEN scene ELSE pd[s].scene

\* the map as a function on the lights that have an entry
MapPut(m, k, v) == [x \in (DOMAIN m) \cup {k} |-> IF x = k THEN v ELSE m[x]]

\* the clone that keeps the post-processing configuration of the pass
ShadowPassKeepsDescription(pass, j, rt) ==
    [pass EXCEPT !.camera = ShadowCamera(j),
                 !.colour_target = rt,
                 !.normal_target = Null,
                 !.position_target = Null,
                 !.depth_only = TRUE,
                 !.clear_colour = TRUE,
                 !.clear_depth = TRUE]

\* lines 252-260: the shadow pass for the j-th directional light, writing rt
ShadowPass(pass, j, rt) ==
    [pass EXCEPT !.post_processing_description = EmptyDescription,
                 !.camera = ShadowCamera(j),
                 !.colour_target = rt,
                 !.normal_target = Null,
                 !.position_target = Null,
                 !.depth_only = TRUE,
                 !.clear_colour = TRUE,
                 !.clear_depth = TRUE]

RECURSIVE ShadowPasses(_, _, _, _)
\* lines 247-266 from the j-th directional light on; st = [pre, targets, maps]
ShadowPasses(pass, lights, j, st) ==
    IF j > Len(lights) THEN st
    ELSE IF lights[j]
         THEN LET tg == NewTarget(st.targets, ShadowMapSize, ShadowMapSize)
                  rt == LastTarget(tg)
                  shadow_pass == ShadowPass(pass, j, rt)
              IN  ShadowPasses(pass, lights, j + 1,
                               [pre |-> Append(st.pre, shadow_pass),
                                targets |-> tg,
                                maps |-> MapPut(st.maps, j, rt)])
         ELSE ShadowPasses(pass, lights, j + 1, st)

\* the data pass left with the depth_only flag of the pass it is cloned from
AODataPassNotDepthOnly(pass, normal, position) ==
    [pass EXCEPT !.post_processing_description = EmptyDescription,
                 !.colour_target = Null,
                 !.normal_target = normal,
                 !.position_target = position,
                 !.clear_colour = TRUE]

\* lines 277-283
AODataPass(pass, normal, position) ==
    [pass EXCEPT !.post_processing_description = EmptyDescription,
                 !.colour_target = Null,
                 !.normal_target = normal,
                 !.position_target = position,
                 !.depth_only = TRUE,
                 !.clear_colour = TRUE]

\* the requesting pass given the hybrid target with its clear flags kept
FusePassKeepsClear(pass, hybrid) == [pass EXCEPT !.colour_target = hybrid]

\* the requesting pass pointed at the camera of the helper's first entry
FusePassHelperCamera(pass, hybrid) ==
    [pass EXCEPT !.colour_target = hybrid,
                 !.clear_colour = FALSE,
                 !.clear_depth = FALSE,
                 !.camera = DataCamera(1)]

\* lines 307-309
FusePass(pass, hybrid) ==
    [pass EXCEPT !.colour_target = hybrid,
                 !.clear_colour = FALSE,
                 !.clear_depth = FALSE]

\* the newest entry left with the camera add_pass gave it
KeepCameraSkipped(pd, prev_camera) == pd

\* line 301
KeepCamera(pd, prev_camera) == [pd EXCEPT ![Len(pd)].camera = prev_camera]

\* lines 274-310; st = [pass, pre, targets, pass_data]
AmbientOcclusionPasses(st) ==
    LET pass == st.pass
        tg1 == NewTarget(st.targets, Width, Height)
        tg2 == NewTarget(tg1, Width, Height)
        ao_data_pass == AODataPass(pass, LastTarget(tg1), LastTarget(tg2))
        pre1 == Append(st.pre, ao_data_pass)
        prev_camera == CameraValue(ao_data_pass.camera, st.pass_data)
        added == AddPass([passes |-> pre1, pass_data |-> st.pass_data, targets |-> tg2, ret |-> Null],
                         "ambient_occlusion", <<>>,
                         <<ao_data_pass.normal_target, ao_data_pass.position_target>>)
        ao_target == added.ret
        pd == KeepCamera(added.pass_data, prev_camera)
        pre2 == [added.passes EXCEPT ![Len(added.passes)].colour_target = pass.colour_target]
        tg3 == NewHybridTarget(added.targets, pre2[Len(pre2)].colour_target, ao_target)
    IN  [pass |-> FusePass(pass, LastTarget(tg3)),
         pre |-> pre2, targets |-> tg3, pass_data |-> pd]

\* lines 245-311: one iteration of the loop over initial_passes
InjectPass ==
    /\ pc = "inject"
    /\ idx <= Len(initial_passes)
    /\ LET pass == initial_passes[idx]
            sh == ShadowPasses(pass, SceneOf(pass.scene, pass_data_).directional_lights, 1,
                               [pre |-> pre_process_passes, targets |-> targets, maps |-> shadow_maps])
            st == [pass |-> pass, pre |-> sh.pre, targets |-> sh.targets, pass_data |-> pass_data_]
            ao == IF pass.post_processing_description.ambient_occlusion
                  THEN AmbientOcclusionPasses(st) ELSE st
        IN  /\ initial_passes' = [initial_passes EXCEPT ![idx] = ao.pass]
            /\ pre_process_passes' = ao.pre
            /\ targets' = ao.targets
            /\ pass_data_' = ao.pass_data
            /\ shadow_maps' = sh.maps
    /\ idx' = idx + 1
    /\ UNCHANGED <<scene, render_passes, cmd, render_queue, queue_step,
                   encoded_entities, input, calls, pc, manager>>

\* the synthesized passes inserted at cend(initial_passes)
InsertPassesAtEnd(initial, pre) == initial \o pre

\* line 314: insert at cbegin(initial_passes)
InsertPasses(initial, pre) == pre \o initial

\* line 314
InsertPreProcess ==
    /\ pc = "inject"
    /\ idx > Len(initial_passes)
    /\ initial_passes' = InsertPasses(initial_passes, pre_process_passes)
    /\ pc' = "expand"
    /\ idx' = 1
    /\ UNCHANGED <<scene, render_passes, pre_process_passes, shadow_maps, pass_data_,
                   targets, cmd, render_queue, queue_step, encoded_entities, input, calls, manager>>

(* --------------------- add_post_processing_passes --------------------- *)
RECURSIVE BlurPasses(_, _)
\* lines 460-466: n more blur passes
BlurPasses(st, n) ==
    IF n = 0 THEN st ELSE BlurPasses(AddPass(st, "blur", <<>>, <<>>), n - 1)

\* the bloom chain with the threshold pass left out
BloomPassesNoThreshold(st, iterations) ==
    LET null_pass == AddPass(st, "pass_through", <<>>, <<>>)
        null_target == null_pass.ret
        blurred == BlurPasses(null_pass, iterations)
    IN  AddPass(blurred, "composite", <<null_target>>, <<>>)

\* lines 442-474
BloomPasses(st, iterations) ==
    LET null_pass == AddPass(st, "pass_through", <<>>, <<>>)
        null_target == null_pass.ret
        threshold == AddPass(null_pass, "threshold", <<>>, <<>>)
        blurred == BlurPasses(threshold, iterations)
    IN  AddPass(blurred, "composite", <<null_target>>, <<>>)

\* the last pass of the chain left with the target add_pass gave it
RestoreTargetSkipped(passes, input_target) == passes

\* line 491
RestoreTarget(passes, input_target) ==
    [passes EXCEPT ![Len(passes)].colour_target = input_target]

\* the anti-aliasing pass added before the colour adjust pass
PostProcessingPassesAAFirst(render_pass, st) ==
    LET st0 == [st EXCEPT !.passes = Append(st.passes, render_pass)]
        input_target == render_pass.colour_target
        description == render_pass.post_processing_description
        st1 == IF description.bloom # <<>> THEN BloomPasses(st0, description.bloom[1]) ELSE st0
        st2 == IF description.anti_aliasing THEN AddPass(st1, "anti_aliasing", <<>>, <<>>) ELSE st1
        st3 == IF description.colour_adjust THEN AddPass(st2, "colour_adjust", <<>>, <<>>) ELSE st2
    IN  [st3 EXCEPT !.passes = RestoreTarget(st3.passes, input_target)]

\* lines 437-491: the body of the loop for one pass
PostProcessingPasses(render_pass, st) ==
    LET st0 == [st EXCEPT !.passes = Append(st.passes, render_pass)]
        input_target == render_pass.colour_target
        description == render_pass.post_processing_description
        st1 == IF description.bloom # <<>> THEN BloomPasses(st0, description.bloom[1]) ELSE st0
        st2 == IF description.colour_adjust THEN AddPass(st1, "colour_adjust", <<>>, <<>>) ELSE st1
        st3 == IF description.anti_aliasing THEN AddPass(st2, "anti_aliasing", <<>>, <<>>) ELSE st2
    IN  [st3 EXCEPT !.passes = RestoreTarget(st3.passes, input_target)]

\* lines 435-492: one iteration of the loop over passes (line 316 calls it
\* with initial_passes as passes)
ExpandPass ==
    /\ pc = "expand"
    /\ idx <= Len(initial_passes)
    /\ LET st == PostProcessingPasses(initial_passes[idx],
                    [passes |-> render_passes, pass_data |-> pass_data_,
                     targets |-> targets, ret |-> Null])
       IN  /\ render_passes' = st.passes
           /\ pass_data_' = st.pass_data
           /\ targets' = st.targets
    /\ idx' = idx + 1
    /\ UNCHANGED <<scene, initial_passes, pre_process_passes, shadow_maps, cmd,
                   render_queue, queue_step, encoded_entities, input, calls, pc, manager>>

\* lines 318-319
EncodeBegin ==
    /\ pc = "expand"
    /\ idx > Len(initial_passes)
    /\ render_queue' = <<>>
    /\ queue_step' = <<>>
    /\ encoded_entities' = <<>>
    /\ cmd' = DefaultCommand
    /\ pc' = "encode"
    /\ idx' = 1
    /\ UNCHANGED <<scene, render_passes, initial_passes, pre_process_passes, shadow_maps,
                   pass_data_, targets, input, calls, manager>>

(* --------------------- encode_light_pass_commands --------------------- *)
AmbientLight(s) == [type |-> "AMBIENT", scene |-> s, idx |-> 0]
PointLight(s, j) == [type |-> "POINT", scene |-> s, idx |-> j]
DirectionalLight(s, j) == [type |-> "DIRECTIONAL", scene |-> s, idx |-> j]

RECURSIVE PointCommandsReversed(_, _, _, _)
\* the point lights taken from the back of the collection
PointCommandsReversed(s, n, j, st) ==
    IF j > n THEN st
    ELSE LET c == [st.cmd EXCEPT !.type = "DRAW", !.light = PointLight(s, n + 1 - j)]
         IN  PointCommandsReversed(s, n, j + 1, [cmd |-> c, queue |-> Append(st.queue, c)])

RECURSIVE PointCommands(_, _, _, _)
\* lines 188-193 from the j-th point light on; st = [cmd, queue]
PointCommands(s, n, j, st) ==
    IF j > n THEN st
    ELSE LET c == [st.cmd EXCEPT !.type = "DRAW", !.light = PointLight(s, j)]
         IN  PointCommands(s, n, j + 1, [cmd |-> c, queue |-> Append(st.queue, c)])

\* the shadow map set for the entities that do not receive shadows
SetShadowMapInverted(c, receive_shadow, maps, j) ==
    IF ~receive_shadow
    THEN [c EXCEPT !.shadow_map = IF j \in DOMAIN maps THEN maps[j] ELSE Null]
    ELSE c

\* the shadow map left as it is for a light without an entry in the table
SetShadowMapKept(c, receive_shadow, maps, j) ==
    IF receive_shadow /\ j \in DOMAIN maps
    THEN [c EXCEPT !.shadow_map = maps[j]]
    ELSE c

\* lines 203-207
SetShadowMap(c, receive_shadow, maps, j) ==
    IF receive_shadow
    THEN [c EXCEPT !.shadow_map = IF j \in DOMAIN maps THEN maps[j] ELSE Null]
    ELSE c

RECURSIVE DirectionalCommandsInsideIf(_, _, _, _, _, _)
\* the DRAW pushed only for the entities that receive shadows
DirectionalCommandsInsideIf(s, n, receive_shadow, maps, j, st) ==
    IF j > n THEN st
    ELSE LET c1 == [st.cmd EXCEPT !.type = "DRAW", !.light = DirectionalLight(s, j)]
             c2 == SetShadowMap(c1, receive_shadow, maps, j)
         IN  DirectionalCommandsInsideIf(s, n, receive_shadow, maps, j + 1,
                                         [cmd |-> c2,
                                          queue |-> IF receive_shadow THEN Append(st.queue, c2)
                                                    ELSE st.queue])

RECURSIVE DirectionalCommands(_, _, _, _, _, _)
\* lines 197-210 from the j-th directional light on
DirectionalCommands(s, n, receive_shadow, maps, j, st) ==
    IF j > n THEN st
    ELSE LET c1 == [st.cmd EXCEPT !.type = "DRAW", !.light = DirectionalLight(s, j)]
             c2 == SetShadowMap(c1, receive_shadow, maps, j)
         IN  DirectionalCommands(s, n, receive_shadow, maps, j + 1,
                                 [cmd |-> c2, queue |-> Append(st.queue, c2)])

\* the hint passed on for every light type
MaterialHintAnyLight(has_target, light_type) == has_target

\* lines 172-173
MaterialHint(has_target, light_type) == has_target /\ light_type = "AMBIENT"

RECURSIVE LightPassCommands(_, _, _, _, _, _, _, _, _)
\* lines 165-213 from the e-th entity of the scene on; sc is the scene, s its
\* number, target is cmd.render_pass()->colour_target
LightPassCommands(sc, s, light_type, has_normal_target, has_position_target, target, maps, e, st) ==
    IF e > Len(sc.entities) THEN st
    ELSE LET ent == sc.entities[e]
             material == CreateMaterial(ent.rg, [scene |-> s, idx |-> e], target, light_type,
                                        MaterialHint(has_normal_target, light_type),
                                        MaterialHint(has_position_target, light_type))
             c0 == [st.cmd EXCEPT !.material = material,
                                  !.render_entity = [scene |-> s, idx |-> e]]
             st0 == [st EXCEPT !.cmd = c0]
             st1 == IF light_type = "AMBIENT"
                    THEN LET c == [c0 EXCEPT !.type = "DRAW", !.light = AmbientLight(s)]
                         IN  [cmd |-> c, queue |-> Append(st.queue, c)]
                    ELSE IF light_type = "POINT"
                    THEN PointCommands(s, sc.point_lights, 1, st0)
                    ELSE DirectionalCommands(s, Len(sc.directional_lights), ent.receive_shadow,
                                             maps, 1, st0)
         IN  LightPassCommands(sc, s, light_type, has_normal_target, has_position_target,
                               target, maps, e + 1, st1)

(* ----------------------- build: command encoding ----------------------- *)
\* lines 376-395: sc is the scene after create_entity
SkyBoxCommand(sc, s, target, st) ==
    LET e == Len(sc.entities)
        material == CreateMaterial("sky_box", [scene |-> s, idx |-> e], target, "AMBIENT", FALSE, FALSE)
        c == [st.cmd EXCEPT !.material = material,
                            !.render_entity = [scene |-> s, idx |-> e],
                            !.type = "DRAW",
                            !.light = AmbientLight(s)]
    IN  [cmd |-> c, queue |-> Append(st.queue, c)]

\* PASS_START pushed without set_render_pass
PassStartStale(c, i) == [c EXCEPT !.type = "PASS_START"]

\* lines 324-326
PassStart(c, i) == [c EXCEPT !.render_pass = i, !.type = "PASS_START"]

\* the ambient light pass encoded for every pass
EncodesAmbientAlways(pass) == TRUE

\* line 333
EncodesAmbient(pass) == ~pass.post_processing_description.ambient_occlusion

\* the lights encoded for depth only passes too
EncodesLightsAlways(pass) == TRUE

\* line 346
EncodesLights(pass) == ~pass.depth_only

\* line 376
EncodesSkyBox(pass) == pass.sky_box

\* line 398
PassEnd(c) == [c EXCEPT !.type = "PASS_END"]

\* n copies of x
Repeat(x, n) == [i \in 1..n |-> x]

\* lines 322-400: one iteration of the loop over render_passes
EncodePass ==
    /\ pc = "encode"
    /\ idx <= Len(render_passes)
    /\ \E rs \in BOOLEAN :
        LET pass == render_passes[idx]
            s == pass.scene
            sc == SceneOf(s, pass_data_)
            target == pass.colour_target
            c0 == PassStart(cmd, idx)
            st0 == [cmd |-> c0, queue |-> Append(render_queue, c0)]
            has_normal_target == pass.normal_target # Null
            has_position_target == pass.position_target # Null
            st1 == IF EncodesAmbient(pass)
                   THEN LightPassCommands(sc, s, "AMBIENT", has_normal_target, has_position_target,
                                          target, shadow_maps, 1, st0)
                   ELSE st0
            st2 == IF EncodesLights(pass) /\ sc.point_lights # 0
                   THEN LightPassCommands(sc, s, "POINT", has_normal_target, has_position_target,
                                          target, shadow_maps, 1, st1)
                   ELSE st1
            st3 == IF EncodesLights(pass) /\ sc.directional_lights # <<>>
                   THEN LightPassCommands(sc, s, "DIRECTIONAL", has_normal_target, has_position_target,
                                          target, shadow_maps, 1, st2)
                   ELSE st2
            sky == EncodesLights(pass) /\ EncodesSkyBox(pass)
            sc4 == IF sky
                   THEN [sc EXCEPT !.entities = CreateEntity(sc.entities, SingleEntity("sky_box", rs))]
                   ELSE sc
            st4 == IF sky THEN SkyBoxCommand(sc4, s, target, st3) ELSE st3
            c5 == PassEnd(st4.cmd)
        IN  /\ render_queue' = Append(st4.queue, c5)
            /\ cmd' = c5
            /\ queue_step' = queue_step \o <<"pass">>
                                \o Repeat("ambient", Len(st1.queue) - Len(st0.queue))
                                \o Repeat("point", Len(st2.queue) - Len(st1.queue))
                                \o Repeat("directional", Len(st3.queue) - Len(st2.queue))
                                \o Repeat("sky_box", Len(st4.queue) - Len(st3.queue))
                                \o <<"pass">>
            /\ encoded_entities' = Append(encoded_entities, Len(sc.entities))
            /\ scene' = IF s = CallerScene THEN sc4 ELSE scene
            /\ pass_data_' = IF s = CallerScene THEN pass_data_
                             ELSE [pass_data_ EXCEPT ![s].scene = sc4]
            /\ (sky \/ rs)
    /\ idx' = idx + 1
    /\ UNCHANGED <<render_passes, initial_passes, pre_process_passes, shadow_maps,
                   targets, input, calls, pc, manager>>

\* the terminal command pushed twice
PresentTwice(queue, c) == Append(Append(queue, c), c)

\* line 403
PushPresent(queue, c) == Append(queue, c)

\* lines 402-405
Present ==
    /\ pc = "encode"
    /\ idx > Len(render_passes)
    /\ LET c == [cmd EXCEPT !.type = "PRESENT"]
       IN  /\ cmd' = c
           /\ render_queue' = PushPresent(render_queue, c)
           /\ queue_step' = queue_step \o Repeat("present", Len(render_queue') - Len(render_queue))
    /\ pc' = "done"
    /\ UNCHANGED <<scene, render_passes, initial_passes, pre_process_passes, shadow_maps,
                   pass_data_, targets, encoded_entities, input, calls, idx, manager>>

Next ==
    \/ BuildBegin
    \/ InjectPass
    \/ InsertPreProcess
    \/ ExpandPass
    \/ EncodeBegin
    \/ EncodePass
    \/ Present

Spec == Init /\ [][Next]_vars

(* --------------------------- several calls ---------------------------- *)
\* build() calls in one behaviour
MaxCalls == 2

\* what of a command sequence does not depend on object identities: the type
\* of each command and the light type of each DRAW
Structure(queue) ==
    [i \in 1..Len(queue) |->
        [type |-> queue[i].type,
         light |-> IF queue[i].type = "DRAW" THEN queue[i].light.type ELSE "NONE"]]

\* build() has returned: its locals are gone, the call is history
Returned(fresh) ==
    /\ pc = "done"
    /\ Len(calls.earlier) + 1 < MaxCalls
    /\ calls' = [fresh |-> fresh,
                 earlier |-> Append(calls.earlier, [fresh |-> calls.fresh,
                                                    structure |-> Structure(render_queue)])]
    /\ initial_passes' = <<>>
    /\ pre_process_passes' = <<>>
    /\ shadow_maps' = <<>>
    /\ cmd' = DefaultCommand
    /\ render_queue' = <<>>
    /\ queue_step' = <<>>
    /\ encoded_entities' = <<>>
    /\ pc' = "begin"
    /\ idx' = 0

\* the caller gives the same builder a pass list equal to the first one, for
\* the same scene; pass_data_ is a member and build() has no statement that
\* clears it
BuildAgain ==
    /\ Returned(FALSE)
    /\ render_passes' = input.passes
    /\ UNCHANGED <<scene, pass_data_, targets, input, manager>>

\* a builder is constructed (lines 220-233) and given a pass list and a scene
\* made anew with the values of the first ones; the target callbacks go on
\* handing out new targets
BuildFresh ==
    /\ Returned(TRUE)
    /\ render_passes' = input.passes
    /\ scene' = input.scene
    /\ pass_data_' = <<>>
    /\ UNCHANGED <<targets, input, manager>>

Init2 == InitOfSize(MaxSize - 1)

Next2 ==
    \/ BuildBegin
    \/ InjectPass
    \/ InsertPreProcess
    \/ ExpandPass
    \/ EncodeBegin
    \/ EncodePass
    \/ Present
    \/ BuildAgain
    \/ BuildFresh

\* build() called MaxCalls times, on one builder or on new ones
Spec2 == Init2 /\ [][Next2]_vars

(* ------------------------ failing collaborators ---------------------- *)
\* the next step of build() calls a target callback or the material callback
CallsCollaborator ==
    \/ /\ pc = "inject"
       /\ idx <= Len(initial_passes)
       /\ \/ initial_passes[idx].post_processing_description.ambient_occlusion
          \/ \E j \in 1..Len(SceneOf(initial_passes[idx].scene, pass_data_).directional_lights) :
                SceneOf(initial_passes[idx].scene, pass_data_).directional_lights[j]
    \/ /\ pc = "expand"
       /\ idx <= Len(initial_passes)
       /\ initial_passes[idx].post_processing_description
              # [EmptyDescription EXCEPT
                   !.ambient_occlusion =
                       initial_passes[idx].post_processing_description.ambient_occlusion]
    \/ /\ pc = "encode"
       /\ idx <= Len(render_passes)
       /\ LET pass == render_passes[idx]
              sc == SceneOf(pass.scene, pass_data_)
          IN  \/ EncodesAmbient(pass) /\ sc.entities # <<>>
              \/ /\ EncodesLights(pass)
                 /\ sc.entities # <<>>
                 /\ (sc.point_lights # 0 \/ sc.directional_lights # <<>>)
              \/ EncodesLights(pass) /\ EncodesSkyBox(pass)

\* the failure handled inside build(), which returns what it has
AfterFailureReturns(p) == "done"

\* lines 235-406 have no handler: the failure leaves build() from position p
AfterFailure(p) == "failed"

\* a callback called by the next step fails; the locals of build() are gone,
\* the members and the caller's objects are as the steps before left them
CollaboratorFails ==
    /\ CallsCollaborator
    /\ pc' = AfterFailure(pc)
    /\ initial_passes' = <<>>
    /\ pre_process_passes' = <<>>
    /\ shadow_maps' = <<>>
    /\ cmd' = DefaultCommand
    /\ render_queue' = <<>>
    /\ queue_step' = <<>>
    /\ encoded_entities' = <<>>
    /\ idx' = 0
    /\ UNCHANGED <<scene, render_passes, pass_data_, targets, input, calls, manager>>

Next3 ==
    \/ BuildBegin
    \/ InjectPass
    \/ InsertPreProcess
    \/ ExpandPass
    \/ EncodeBegin
    \/ EncodePass
    \/ Present
    \/ CollaboratorFails

\* build() with callbacks that may fail
Spec3 == Init2 /\ [][Next3]_vars

(* ------------------- OpenGLTextureManager operations ------------------ *)
\* the objects created and not destroyed
Live == {o \in 1..Len(objects) : objects[o].live}

\* line 40
Top(pool) == pool[Len(pool)]

\* the id read and left on the stack
PopSkipped(pool) == pool

\* line 41
Pop(pool) == SubSeq(pool, 1, Len(pool) - 1)

\* lines 46-49
ReturnId(pool, id) == Append(pool, id)

\* lines 51-76: do_create of a texture or of a cube map, with next_id()
\* (lines 36-44); expect() does not let the call go on with an empty pool
Create ==
    /\ \E kind \in {"texture", "cube_map"} :
        IF id_pool_ = <<>>
        THEN /\ outcome' = [op |-> "create", failed |-> TRUE,
                            live |-> Cardinality(Live), made |-> Len(objects)]
             /\ UNCHANGED <<id_pool_, objects>>
        ELSE /\ Len(objects) < MaxObjects
             /\ objects' = Append(objects, [kind |-> kind, id |-> Top(id_pool_), live |-> TRUE])
             /\ id_pool_' = Pop(id_pool_)
             /\ outcome' = [op |-> "create", failed |-> FALSE,
                            live |-> Cardinality(Live), made |-> Len(objects)]
    /\ UNCHANGED builder

\* lines 83-93: destroy of a texture or of a cube map that was not destroyed
\* before
Destroy ==
    /\ \E o \in Live :
        /\ id_pool_' = ReturnId(id_pool_, objects[o].id)
        /\ objects' = [objects EXCEPT ![o].live = FALSE]
        /\ outcome' = [op |-> "destroy", failed |-> FALSE,
                       live |-> Cardinality(Live), made |-> Len(objects)]
    /\ UNCHANGED builder

\* the texture manager alone; the builder is constructed and never called
Init4 == InitOfSize(0)

Next4 ==
    \/ Create
    \/ Destroy

Spec4 == Init4 /\ [][Next4]_vars

(* ------------------------- reading the result ------------------------- *)
Done == pc = "done"

Positions == 1..Len(render_queue)
Passes == 1..Len(render_passes)

IsDraw(i) == render_queue[i].type = "DRAW"

\* positions of the commands of type t that refer to pass k
Tagged(t, k) == {i \in Positions : render_queue[i].type = t /\ render_queue[i].render_pass = k}

StartOf(k) == CHOOSE i \in Tagged("PASS_START", k) : TRUE
EndOf(k) == CHOOSE i \in Tagged("PASS_END", k) : TRUE

\* positions strictly inside the span of pass k
Span(k) == {i \in Positions : StartOf(k) < i /\ i < EndOf(k)}

\* the DRAWs of the span of pass k whose light has type t
DrawsOfType(k, t) == {i \in Span(k) : IsDraw(i) /\ render_queue[i].light.type = t}

\* the DRAWs of the span of pass k pushed by encoding step st
DrawsOfStep(k, st) == {i \in Span(k) : IsDraw(i) /\ queue_step[i] = st}

RequestsAO(k) == render_passes[k].post_processing_description.ambient_occlusion

\* the render graph of a synthesized pass, "none" for a caller's pass
NodeOf(k) ==
    IF render_passes[k].scene = CallerScene THEN "none"
    ELSE pass_data_[render_passes[k].scene].scene.graph.node

InputsOf(k) ==
    IF render_passes[k].scene = CallerScene THEN <<>>
    ELSE pass_data_[render_passes[k].scene].scene.graph.inputs

Range(f) == {f[x] : x \in DOMAIN f}

(* ------------------------------- claims ------------------------------- *)
\* C1: the sequence build() returns holds exactly one PRESENT, and it is the
\* last command.
C1_PresentLast ==
    Done => /\ render_queue # <<>>
            /\ {i \in Positions : render_queue[i].type = "PRESENT"} = {Len(render_queue)}

C1_Witness ==
    /\ Done
    /\ Len(render_queue) > 3
    /\ render_queue[Len(render_queue)].type = "PRESENT"

\* C2: every pass of the final list has exactly one PASS_START and one
\* PASS_END, the start first; each DRAW lies inside the span of the pass it
\* refers to; no start or end of another pass lies inside a span.
C2_SpansWellFormed ==
    Done =>
        /\ \A k \in Passes :
            /\ Cardinality(Tagged("PASS_START", k)) = 1
            /\ Cardinality(Tagged("PASS_END", k)) = 1
            /\ StartOf(k) < EndOf(k)
            /\ \A i \in Span(k) : IsDraw(i) /\ render_queue[i].render_pass = k
        /\ \A i \in Positions :
            render_queue[i].type # "PRESENT" => render_queue[i].render_pass \in Passes
        /\ \A i \in Positions :
            IsDraw(i) => i \in Span(render_queue[i].render_pass)

C2_Witness ==
    /\ Done
    /\ Len(render_passes) >= 3
    /\ \E k \in Passes : Cardinality(Span(k)) >= 2

\* passes of the final list that write target t
Writers(t) == {k \in Passes : render_passes[k].colour_target = t}

\* passes of the final list whose DRAWs carry shadow map t
ShadowConsumers(t) == {k \in Passes : \E i \in Span(k) : render_queue[i].shadow_map = t}

\* created targets that are hybrids
Hybrids == {h \in 1..Len(targets) : targets[h].kind = "hybrid"}

\* the SSAO passes behind hybrid h: the data pass, which writes the target
\* fused as depth, and the compute pass, which reads it
AOPasses(h) ==
    Writers(targets[h].depth)
    \cup {k \in Passes : NodeOf(k) = "ambient_occlusion" /\ InputsOf(k)[1] = targets[h].depth}

\* C3: a shadow pass, an SSAO data pass and an SSAO compute pass each end
\* before any pass starts that consumes their output.
C3_PreProcessFirst ==
    Done =>
        /\ \A m \in Range(shadow_maps) :
            \A w \in Writers(m) : \A c \in ShadowConsumers(m) : EndOf(w) < StartOf(c)
        /\ \A h \in Hybrids :
            \A w \in AOPasses(h) : \A c \in Writers(TargetId(h)) : EndOf(w) < StartOf(c)

C3_Witness ==
    /\ Done
    /\ \E m \in Range(shadow_maps) :
        /\ Writers(m) # {}
        /\ \E c \in ShadowConsumers(m) : render_passes[c].camera = CallerCamera(2)
    /\ \E h \in Hybrids : Cardinality(AOPasses(h)) = 2 /\ Writers(TargetId(h)) # {}

\* receive_shadow() of the entity command i draws
ReceivesShadow(i) ==
    SceneOf(render_queue[i].render_entity.scene, pass_data_)
        .entities[render_queue[i].render_entity.idx].receive_shadow

\* the directional lights of the caller's scene that cast shadows
CastingLights ==
    {j \in 1..Len(input.scene.directional_lights) : input.scene.directional_lights[j]}

\* the DRAWs for directional light j of the caller's scene
DirectionalDraws(j) ==
    {i \in Positions : IsDraw(i) /\ render_queue[i].light = DirectionalLight(CallerScene, j)}

\* C4: once injection is over, each shadow casting directional light of the
\* scene of an input pass has an entry in the shadow map table, and each DRAW
\* for it on an entity that receives shadows carries the target of the entry.
C4_CastingLightsMapped ==
    (pc \in {"expand", "encode", "done"} /\ input.passes # <<>>) =>
        \A j \in CastingLights :
            /\ j \in DOMAIN shadow_maps
            /\ shadow_maps[j] # Null
            /\ \A i \in DirectionalDraws(j) :
                ReceivesShadow(i) => render_queue[i].shadow_map = shadow_maps[j]

C4_Witness ==
    /\ Done
    /\ \E j \in CastingLights : \E i \in DirectionalDraws(j) :
        ReceivesShadow(i) /\ render_queue[i].shadow_map = shadow_maps[j]
    /\ Cardinality(CastingLights) >= 2

\* C5: a directional light DRAW on an entity that does not receive shadows
\* has an empty shadow map field.
C5_NoShadowWhenNotReceiving ==
    Done =>
        \A i \in Positions :
            (IsDraw(i) /\ render_queue[i].light.type = "DIRECTIONAL" /\ ~ReceivesShadow(i))
                => render_queue[i].shadow_map = Null

\* C6 as stated: a depth only pass has no point light, directional light or
\* sky box DRAW in its span, and has ambient DRAWs exactly if it does not
\* request ambient occlusion.
C6_DepthOnlyAsStated ==
    Done =>
        \A k \in Passes :
            render_passes[k].depth_only =>
                /\ DrawsOfType(k, "POINT") = {}
                /\ DrawsOfType(k, "DIRECTIONAL") = {}
                /\ DrawsOfStep(k, "sky_box") = {}
                /\ (DrawsOfStep(k, "ambient") # {}) <=> ~RequestsAO(k)

\* C6 amended: a depth only pass has no point light, directional light or
\* sky box DRAW in its span; without ambient occlusion its span holds one
\* ambient DRAW for each entity the scene has when the pass is encoded (none
\* for an empty scene), with ambient occlusion it holds no DRAW at all.
C6_DepthOnly ==
    Done =>
        \A k \in Passes :
            render_passes[k].depth_only =>
                /\ DrawsOfType(k, "POINT") = {}
                /\ DrawsOfType(k, "DIRECTIONAL") = {}
                /\ DrawsOfStep(k, "sky_box") = {}
                /\ Span(k) = DrawsOfStep(k, "ambient")
                /\ Cardinality(Span(k)) = IF RequestsAO(k) THEN 0 ELSE encoded_entities[k]
                /\ \A i \in Span(k) : render_queue[i].light = AmbientLight(render_passes[k].scene)

C6_Witness ==
    /\ Done
    /\ input.scene.point_lights > 0
    /\ \E k \in Passes :
        /\ render_passes[k].depth_only /\ ~RequestsAO(k) /\ render_passes[k].sky_box
        /\ Span(k) # {}

\* C7 as stated: the span of a pass that requests ambient occlusion holds no
\* DRAW whose light is the ambient light of the scene.
C7_NoAmbientLightAsStated ==
    Done =>
        \A k \in Passes :
            RequestsAO(k) =>
                \A i \in Span(k) : render_queue[i].light # AmbientLight(render_passes[k].scene)

\* C7 amended: the span of a pass that requests ambient occlusion holds no
\* DRAW of the ambient light pass; the one DRAW in it that may carry the
\* ambient light is the sky box DRAW, present exactly if the pass declares a
\* sky box and is not depth only.
C7_NoAmbientPass ==
    Done =>
        \A k \in Passes :
            RequestsAO(k) =>
                /\ DrawsOfStep(k, "ambient") = {}
                /\ DrawsOfType(k, "AMBIENT") = DrawsOfStep(k, "sky_box")
                /\ Cardinality(DrawsOfStep(k, "sky_box")) =
                       IF render_passes[k].sky_box /\ ~render_passes[k].depth_only THEN 1 ELSE 0

C7_Witness ==
    /\ Done
    /\ \E k \in Passes :
        /\ RequestsAO(k)
        /\ render_passes[k].sky_box
        /\ encoded_entities[k] > 0
        /\ Cardinality(DrawsOfType(k, "AMBIENT")) = 1

\* passes of the final list the caller gave (not clones made by injection)
CallerPasses ==
    {k \in Passes : /\ render_passes[k].scene = CallerScene
                    /\ render_passes[k].camera.kind = "caller"
                    /\ render_passes[k].normal_target \notin Range([h \in 1..Len(targets) |-> TargetId(h)])}

\* C8: an input pass that is not depth only and does not request ambient
\* occlusion has p * e point light DRAWs in its span, p and e the numbers of
\* point lights and entities of its scene.
C8_PointDraws ==
    Done =>
        \A k \in CallerPasses :
            (~render_passes[k].depth_only /\ ~RequestsAO(k)) =>
                Cardinality(DrawsOfType(k, "POINT")) =
                    input.scene.point_lights * Len(input.scene.entities)

BloomNodes == {"pass_through", "threshold", "blur", "composite"}

\* passes of the final list with a bloom configuration
BloomPassesOf == {k \in Passes : render_passes[k].post_processing_description.bloom # <<>>}

Iterations(k) == render_passes[k].post_processing_description.bloom[1]

\* the node the m-th pass after a pass with n bloom iterations must have
BloomStage(n, m) ==
    IF m = 1 THEN "pass_through"
    ELSE IF m = 2 THEN "threshold"
    ELSE IF m <= n + 2 THEN "blur"
    ELSE "composite"

\* C9: in the expanded list a pass with n bloom iterations is followed by
\* exactly n + 3 bloom passes: pass-through, threshold, n blurs, composite.
C9_BloomChain ==
    pc \in {"encode", "done"} =>
        /\ \A k \in BloomPassesOf :
            LET n == Iterations(k)
            IN  /\ k + n + 3 <= Len(render_passes)
                /\ \A m \in 1..(n + 3) : NodeOf(k + m) = BloomStage(n, m)
                /\ (k + n + 4 <= Len(render_passes)) => NodeOf(k + n + 4) \notin BloomNodes
        /\ \A q \in Passes :
            NodeOf(q) \in BloomNodes =>
                \E k \in BloomPassesOf : k < q /\ q <= k + Iterations(k) + 3

C9_Witness ==
    /\ Done
    /\ \E k \in BloomPassesOf :
        /\ Iterations(k) >= 2
        /\ NodeOf(k + 3) = "blur"
        /\ NodeOf(k + Iterations(k) + 3) = "composite"

\* synthesized passes of the final list
StagePasses == {k \in Passes : render_passes[k].scene # CallerScene}

\* the pass whose bloom chain composite pass k closes
ChainHead(k) == CHOOSE o \in BloomPassesOf : o + Iterations(o) + 3 = k

Composites == {k \in Passes : NodeOf(k) = "composite"}

\* every synthesized pass reads the colour target the pass before it writes
ReadsPrevious ==
    \A k \in StagePasses :
        /\ k > 1
        /\ render_passes[k - 1].colour_target # Null
        /\ render_passes[k - 1].colour_target \in Range(InputsOf(k))

\* C10 as stated: every synthesized pass reads the colour target written by
\* the pass before it, and a bloom composite pass also reads the colour
\* target written by the pass-through pass of its chain.
C10_CompositeAsStated ==
    pc \in {"encode", "done"} =>
        /\ ReadsPrevious
        /\ \A k \in Composites :
            render_passes[ChainHead(k) + 1].colour_target \in Range(InputsOf(k))

\* C10 amended: every synthesized pass reads the colour target written by
\* the pass before it, and a bloom composite pass also reads the colour
\* target the pass-through pass reads, which is the one written by the pass
\* that was expanded, not the one the pass-through pass writes.
C10_CompositeInputs ==
    pc \in {"encode", "done"} =>
        /\ ReadsPrevious
        /\ \A k \in Composites :
            /\ InputsOf(k) = <<render_passes[ChainHead(k)].colour_target,
                               render_passes[k - 1].colour_target>>
            /\ InputsOf(ChainHead(k) + 1) = <<render_passes[ChainHead(k)].colour_target>>
            /\ render_passes[ChainHead(k) + 1].colour_target \notin Range(InputsOf(k))

C10_Witness ==
    /\ Done
    /\ \E k \in Composites : Iterations(ChainHead(k)) > 0
    /\ \E k \in StagePasses : NodeOf(k) = "ambient_occlusion"

\* passes add_post_processing_passes appends after a pass with description d
EffectCount(d) ==
    (IF d.bloom # <<>> THEN d.bloom[1] + 3 ELSE 0)
    + B2N(d.colour_adjust) + B2N(d.anti_aliasing)

\* the passes given to add_post_processing_passes
Expanded == 1..Len(initial_passes)

RECURSIVE ChainStart(_)
\* where the chain of the i-th pass given to the expander starts in the result
ChainStart(i) ==
    IF i = 1 THEN 1
    ELSE ChainStart(i - 1) + 1 + EffectCount(initial_passes[i - 1].post_processing_description)

ChainEnd(i) == ChainStart(i) + EffectCount(initial_passes[i].post_processing_description)

\* C11: the last pass of the chain a pass is expanded to has the colour target
\* the pass had when it was given to the expander; a pass with no effect
\* enabled is emitted unchanged, as a chain of one.
C11_ChainKeepsTarget ==
    pc \in {"encode", "done"} =>
        /\ \A i \in Expanded :
            /\ ChainEnd(i) <= Len(render_passes)
            /\ render_passes[ChainEnd(i)].colour_target = initial_passes[i].colour_target
            /\ EffectCount(initial_passes[i].post_processing_description) = 0
                   => render_passes[ChainStart(i)] = initial_passes[i]
        /\ initial_passes # <<>> => ChainEnd(Len(initial_passes)) = Len(render_passes)

C11_Witness ==
    /\ Done
    /\ \E i \in Expanded :
        /\ initial_passes[i].post_processing_description.bloom # <<>>
        /\ initial_passes[i].post_processing_description.colour_adjust
        /\ initial_passes[i].post_processing_description.anti_aliasing
        /\ render_passes[ChainEnd(i)].colour_target = CallerColour(1)
    /\ \E i \in Expanded : EffectCount(initial_passes[i].post_processing_description) = 0

\* rank of an encoding step inside a span
StepRank(st) ==
    IF st = "ambient" THEN 1 ELSE IF st = "point" THEN 2
    ELSE IF st = "directional" THEN 3 ELSE 4

\* the light type the DRAWs of an encoding step carry
StepLight(st) ==
    IF st = "point" THEN "POINT" ELSE IF st = "directional" THEN "DIRECTIONAL" ELSE "AMBIENT"

\* lights of type t in the scene of pass k
LightCount(k, t) ==
    LET sc == SceneOf(render_passes[k].scene, pass_data_)
    IN  IF t = "POINT" THEN sc.point_lights
        ELSE IF t = "DIRECTIONAL" THEN Len(sc.directional_lights)
        ELSE 1

\* the DRAWs of step st of pass k are, in queue order, one per light of the
\* type for the first entity, then one per light for the second, and so on
EntityMajor(k, st) ==
    LET ds == DrawsOfStep(k, st)
        n == LightCount(k, StepLight(st))
    IN  \A i \in ds :
            LET r == Cardinality({j \in ds : j < i})
            IN  /\ n > 0
                /\ render_queue[i].render_entity = [scene |-> render_passes[k].scene,
                                                    idx |-> (r \div n) + 1]
                /\ render_queue[i].light.type = StepLight(st)
                /\ render_queue[i].light.scene = render_passes[k].scene
                /\ render_queue[i].light.idx = IF st = "ambient" THEN 0 ELSE (r % n) + 1

\* C12: in the span of a pass the ambient DRAWs come first, then the point
\* light DRAWs, then the directional light DRAWs, then the sky box DRAW; the
\* DRAWs of one light type go entity by entity in the scene's order, and for
\* each entity light by light in the rig's order.
C12_EncodingOrder ==
    Done =>
        \A k \in Passes :
            /\ \A i, j \in Span(k) :
                i < j => StepRank(queue_step[i]) <= StepRank(queue_step[j])
            /\ EntityMajor(k, "ambient")
            /\ EntityMajor(k, "point")
            /\ EntityMajor(k, "directional")
            /\ Cardinality(DrawsOfStep(k, "sky_box")) <= 1

C12_Witness ==
    /\ Done
    /\ \E k \in Passes :
        /\ Cardinality(DrawsOfStep(k, "ambient")) = 2
        /\ Cardinality(DrawsOfStep(k, "point")) = 4

\* C14: when build() returns, the entity collection and the lighting rig of
\* the caller's scene are what they were when it was called.
C14_SceneOnlyRead ==
    Done =>
        /\ scene.entities = input.scene.entities
        /\ scene.point_lights = input.scene.point_lights
        /\ scene.directional_lights = input.scene.directional_lights

\* the directional lights of the caller's scene without an entry in the table
UnmappedLights == (1..Len(input.scene.directional_lights)) \ DOMAIN shadow_maps

\* C16: for an entity that receives shadows and a directional light without
\* an entry in the shadow map table, every pass that encodes directional
\* lights emits the DRAW, and the DRAW has an empty shadow map field.
C16_UnmappedLightDraws ==
    Done =>
        /\ \A j \in UnmappedLights : \A i \in DirectionalDraws(j) :
            ReceivesShadow(i) => render_queue[i].shadow_map = Null
        /\ \A k \in Passes :
            (render_passes[k].scene = CallerScene /\ ~render_passes[k].depth_only) =>
                \A e \in 1..encoded_entities[k] : \A j \in UnmappedLights :
                    \E i \in DrawsOfStep(k, "directional") :
                        /\ render_queue[i].render_entity = [scene |-> CallerScene, idx |-> e]
                        /\ render_queue[i].light = DirectionalLight(CallerScene, j)

\* a light without an entry encoded right after a light with a shadow map,
\* for one entity that receives shadows
C16_Witness ==
    /\ Done
    /\ \E j \in UnmappedLights : \E i \in DirectionalDraws(j) :
        /\ ReceivesShadow(i)
        /\ i > 1
        /\ IsDraw(i - 1)
        /\ render_queue[i - 1].render_entity = render_queue[i].render_entity
        /\ render_queue[i - 1].light.type = "DIRECTIONAL"
        /\ render_queue[i - 1].shadow_map # Null
        /\ render_queue[i].shadow_map = Null

Injected == pc \in {"expand", "encode", "done"}

\* the synthesized passes, in the order injection made them
PreProcess == 1..Len(pre_process_passes)

\* the shadow passes for directional light j of the caller's scene
ShadowPassesFor(j) == {k \in PreProcess : pre_process_passes[k].camera = ShadowCamera(j)}

\* created targets of the given size that exactly one synthesized pass writes
FreshTarget(t, w, h) ==
    /\ \E x \in 1..Len(targets) :
        t = TargetId(x) /\ targets[x] = [kind |-> "rt", width |-> w, height |-> h,
                                         colour |-> Null, depth |-> Null]
    /\ Cardinality({k \in PreProcess : pre_process_passes[k].colour_target = t}) <= 1

\* C17: injection makes one shadow pass per input pass and shadow casting
\* directional light of its scene, none for a light that does not cast; the
\* m-th shadow pass of a light is the m-th input pass with the light's shadow
\* camera, a fresh 1024x1024 colour target, no normal and no position target,
\* the empty post-processing configuration, and depth_only, clear_colour and
\* clear_depth set.
C17_ShadowPasses ==
    Injected =>
        /\ \A k \in PreProcess :
            pre_process_passes[k].camera.kind = "shadow" =>
                \E j \in 1..Len(input.scene.directional_lights) : k \in ShadowPassesFor(j)
        /\ \A j \in 1..Len(input.scene.directional_lights) :
            /\ Cardinality(ShadowPassesFor(j)) =
                   IF input.scene.directional_lights[j] THEN Len(input.passes) ELSE 0
            /\ \A k \in ShadowPassesFor(j) :
                LET m == Cardinality({x \in ShadowPassesFor(j) : x <= k})
                    p == pre_process_passes[k]
                IN  /\ m <= Len(input.passes)
                    /\ FreshTarget(p.colour_target, ShadowMapSize, ShadowMapSize)
                    /\ p = [scene |-> input.passes[m].scene,
                            camera |-> ShadowCamera(j),
                            colour_target |-> p.colour_target,
                            normal_target |-> Null,
                            position_target |-> Null,
                            depth_only |-> TRUE,
                            clear_colour |-> TRUE,
                            clear_depth |-> TRUE,
                            post_processing_description |-> EmptyDescription,
                            sky_box |-> input.passes[m].sky_box]

C17_Witness ==
    /\ Done
    /\ Len(input.passes) = 2
    /\ input.passes[1].post_processing_description # EmptyDescription
    /\ \E j \in CastingLights : Cardinality(ShadowPassesFor(j)) = 2
    /\ \E j \in 1..Len(input.scene.directional_lights) : ShadowPassesFor(j) = {}

\* input passes that request ambient occlusion
AORequests ==
    {m \in 1..Len(input.passes) : input.passes[m].post_processing_description.ambient_occlusion}

\* where injection puts the AO data pass of the m-th input pass: after the
\* shadow passes of the first m input passes and the AO passes of the
\* requesting passes before it
DataPos(m) ==
    m * Cardinality(CastingLights) + 2 * Cardinality({i \in AORequests : i < m}) + 1

\* a created full-screen target
ScreenTarget(t) ==
    \E x \in 1..Len(targets) :
        t = TargetId(x) /\ targets[x] = [kind |-> "rt", width |-> Width, height |-> Height,
                                         colour |-> Null, depth |-> Null]

\* C18: for each input pass that requests ambient occlusion, injection adds
\* two pre-process passes next to each other: a depth only data pass with the
\* pass's scene and camera, fresh normal and position targets and the empty
\* post-processing configuration, then a compute pass whose node reads the
\* data pass's colour, normal and position targets; nothing else is added
\* besides the shadow passes.
C18_AOPasses ==
    Injected =>
        /\ Len(pre_process_passes) =
               Len(input.passes) * Cardinality(CastingLights) + 2 * Cardinality(AORequests)
        /\ \A m \in AORequests :
            LET d == pre_process_passes[DataPos(m)]
                c == pre_process_passes[DataPos(m) + 1]
            IN  /\ d = [input.passes[m] EXCEPT
                            !.post_processing_description = EmptyDescription,
                            !.colour_target = d.colour_target,
                            !.normal_target = d.normal_target,
                            !.position_target = d.position_target,
                            !.depth_only = TRUE,
                            !.clear_colour = TRUE]
                /\ ScreenTarget(d.colour_target)
                /\ ScreenTarget(d.normal_target)
                /\ ScreenTarget(d.position_target)
                /\ Cardinality({d.colour_target, d.normal_target, d.position_target}) = 3
                /\ \A k \in PreProcess \ {DataPos(m)} :
                    {pre_process_passes[k].colour_target, pre_process_passes[k].normal_target,
                     pre_process_passes[k].position_target}
                        \cap {d.colour_target, d.normal_target, d.position_target} = {}
                /\ c.scene # CallerScene
                /\ pass_data_[c.scene].scene.graph =
                       [node |-> "ambient_occlusion",
                        inputs |-> <<d.colour_target, d.normal_target, d.position_target>>]

C18_Witness ==
    /\ Done
    /\ Cardinality(AORequests) = 2
    /\ \E m \in 1..Len(input.passes) : m \notin AORequests
    /\ \E m \in AORequests :
        pass_data_[pre_process_passes[DataPos(m) + 1].scene].scene.graph.node = "ambient_occlusion"

\* the m-th input pass as injection leaves it
Injection(m) == initial_passes[Len(pre_process_passes) + m]

\* C19: after injection, for an input pass that requests ambient occlusion the
\* AO compute pass writes the colour target the pass had on input, the pass
\* writes the hybrid target made of that colour target and of the target
\* allocated for the compute stage, and its clear_colour and clear_depth are
\* false; a pass that does not request ambient occlusion is as it was.
C19_FusedTarget ==
    Injected =>
        \A m \in 1..Len(input.passes) :
            IF m \in AORequests
            THEN /\ pre_process_passes[DataPos(m) + 1].colour_target = input.passes[m].colour_target
                 /\ \E h \in Hybrids :
                     /\ targets[h].colour = input.passes[m].colour_target
                     /\ targets[h].depth = pre_process_passes[DataPos(m)].colour_target
                     /\ Injection(m) = [input.passes[m] EXCEPT !.colour_target = TargetId(h),
                                                                !.clear_colour = FALSE,
                                                                !.clear_depth = FALSE]
            ELSE Injection(m) = input.passes[m]

C19_Witness ==
    /\ Done
    /\ \E m \in AORequests :
        /\ input.passes[m].colour_target = CallerColour(m)
        /\ input.passes[m].clear_depth
        /\ ~Injection(m).clear_depth
        /\ \E h \in Hybrids : Injection(m).colour_target = TargetId(h)
    /\ \E m \in 1..Len(input.passes) : m \notin AORequests /\ Injection(m).clear_colour

\* the pass of the final list that is the m-th input pass
Requesting(m) == ChainStart(Len(pre_process_passes) + m)

C15_ScratchRebuilt ==
    Done => Len(pass_data_) = Cardinality(StagePasses)

\* C21: the AO compute pass of a requesting input pass is rendered with a
\* copy of that pass's camera; every other single-stage pass of the final list
\* has the orthographic Width x Height camera add_pass made for it.
C21_StageCameras ==
    Done =>
        /\ \A k \in StagePasses :
            /\ render_passes[k].camera = DataCamera(render_passes[k].scene)
            /\ NodeOf(k) # "ambient_occlusion" =>
                   CameraValue(render_passes[k].camera, pass_data_)
                       = OrthographicCamera(Width, Height)
        /\ \A m \in AORequests :
            LET k == DataPos(m) + 1
            IN  /\ k \in StagePasses
                /\ NodeOf(k) = "ambient_occlusion"
                /\ CameraValue(render_passes[k].camera, pass_data_)
                       = PerspectiveCamera(input.passes[m].camera.id)

\* an AO compute pass made before bloom, colour adjust and anti-aliasing stages
C21_Witness ==
    /\ Done
    /\ \E m \in AORequests :
        CameraValue(render_passes[DataPos(m) + 1].camera, pass_data_) = PerspectiveCamera(m)
    /\ \E k \in StagePasses : NodeOf(k) = "blur"
    /\ \E k \in StagePasses : NodeOf(k) \in {"colour_adjust", "anti_aliasing"}

\* the nodes of the passes expansion must append for description d, in order
ExpectedNodes(d) ==
    (IF d.bloom # <<>>
     THEN <<"pass_through", "threshold">> \o Repeat("blur", d.bloom[1]) \o <<"composite">>
     ELSE <<>>)
    \o (IF d.colour_adjust THEN <<"colour_adjust">> ELSE <<>>)
    \o (IF d.anti_aliasing THEN <<"anti_aliasing">> ELSE <<>>)

\* C22: the final list is, for each pass given to the expander in order, the
\* pass followed directly by its bloom chain (iterations + 3 passes), its
\* colour adjust pass and its anti-aliasing pass, as far as enabled; the
\* passes given to the expander are the injected passes, then the input ones.
C22_ExpansionLayout ==
    pc \in {"encode", "done"} =>
        /\ Len(initial_passes) = Len(pre_process_passes) + Len(input.passes)
        /\ \A i \in PreProcess : initial_passes[i] = pre_process_passes[i]
        /\ initial_passes # <<>> => ChainEnd(Len(initial_passes)) = Len(render_passes)
        /\ initial_passes = <<>> => render_passes = <<>>
        /\ \A i \in Expanded :
            LET d == initial_passes[i].post_processing_description
                nodes == ExpectedNodes(d)
            IN  /\ Len(nodes) = EffectCount(d)
                /\ ChainEnd(i) <= Len(render_passes)
                /\ render_passes[ChainStart(i)] =
                       [initial_passes[i] EXCEPT
                            !.colour_target = render_passes[ChainStart(i)].colour_target]
                /\ \A n \in 1..Len(nodes) :
                    /\ ChainStart(i) + n \in StagePasses
                    /\ NodeOf(ChainStart(i) + n) = nodes[n]

C22_Witness ==
    /\ Done
    /\ pre_process_passes # <<>>
    /\ \E i \in Expanded :
        /\ i > Len(pre_process_passes)
        /\ initial_passes[i].post_processing_description.bloom # <<>>
        /\ initial_passes[i].post_processing_description.colour_adjust
        /\ initial_passes[i].post_processing_description.anti_aliasing
        /\ NodeOf(ChainEnd(i)) = "anti_aliasing"

\* entities and directional lights of the scene of pass k as build() got it
GivenEntities(k) ==
    IF render_passes[k].scene = CallerScene THEN Len(input.scene.entities)
    ELSE Len(pass_data_[render_passes[k].scene].scene.entities)

GivenDirectional(k) ==
    IF render_passes[k].scene = CallerScene THEN Len(input.scene.directional_lights) ELSE 0

\* C23: a pass that does not request ambient occlusion has one ambient DRAW
\* per entity of its scene, depth only or not; a pass that is not depth only
\* has d * e directional light DRAWs, d and e the numbers of directional
\* lights and entities of its scene; a scene without point lights or without
\* directional lights gets no DRAW of that type.
C23_DrawCounts ==
    Done =>
        \A k \in Passes :
            /\ ~RequestsAO(k) => Cardinality(DrawsOfStep(k, "ambient")) = GivenEntities(k)
            /\ ~render_passes[k].depth_only =>
                   Cardinality(DrawsOfType(k, "DIRECTIONAL")) = GivenDirectional(k) * GivenEntities(k)
            /\ LightCount(k, "POINT") = 0 => DrawsOfType(k, "POINT") = {}
            /\ LightCount(k, "DIRECTIONAL") = 0 => DrawsOfType(k, "DIRECTIONAL") = {}

\* C24: the material of every DRAW was made with needs_normal only for the
\* ambient light type and a pass with a normal target, with needs_position
\* only for the ambient light type and a pass with a position target, and with
\* neither for point lights, directional lights and the sky box.
C24_MaterialHints ==
    Done =>
        \A i \in Positions :
            IsDraw(i) =>
                LET m == render_queue[i].material
                    pass == render_passes[render_queue[i].render_pass]
                IN  /\ m.light_type = StepLight(queue_step[i])
                    /\ m.needs_normal => (m.light_type = "AMBIENT" /\ pass.normal_target # Null)
                    /\ m.needs_position => (m.light_type = "AMBIENT" /\ pass.position_target # Null)
                    /\ queue_step[i] # "ambient" => (~m.needs_normal /\ ~m.needs_position)

\* a pass with a normal target: its ambient DRAW has the hint, its point light
\* DRAW has not
C24_Witness ==
    /\ Done
    /\ \E i, j \in Positions :
        /\ IsDraw(i) /\ IsDraw(j)
        /\ render_queue[i].render_pass = render_queue[j].render_pass
        /\ render_passes[render_queue[i].render_pass].normal_target # Null
        /\ queue_step[i] = "ambient" /\ render_queue[i].material.needs_normal
        /\ queue_step[j] \in {"point", "directional"} /\ ~render_queue[j].material.needs_normal
    /\ \E i \in Positions : IsDraw(i) /\ queue_step[i] = "sky_box"

\* C25: a pass of the final list with a sky box and not depth only has one sky
\* box DRAW, with the scene's ambient light, as the last command before its
\* PASS_END; other passes have none; the entity of a sky box DRAW is in no
\* other DRAW of the sequence.
C25_SkyBoxDraw ==
    Done =>
        /\ \A k \in Passes :
            IF render_passes[k].sky_box /\ ~render_passes[k].depth_only
            THEN /\ DrawsOfStep(k, "sky_box") = {EndOf(k) - 1}
                 /\ render_queue[EndOf(k) - 1].light = AmbientLight(render_passes[k].scene)
            ELSE DrawsOfStep(k, "sky_box") = {}
        /\ \A i \in Positions :
            (IsDraw(i) /\ queue_step[i] = "sky_box") =>
                \A j \in Positions \ {i} :
                    IsDraw(j) => render_queue[j].render_entity # render_queue[i].render_entity

\* C27: a shadow map carried by a DRAW for directional light L is the colour
\* target of a shadow pass with L's shadow camera whose span ends before the
\* DRAW.
C27_ShadowMapProvenance ==
    Done =>
        \A i \in Positions :
            (IsDraw(i) /\ render_queue[i].light.type = "DIRECTIONAL"
                       /\ render_queue[i].shadow_map # Null) =>
                \E k \in Passes :
                    /\ render_passes[k].camera = ShadowCamera(render_queue[i].light.idx)
                    /\ render_passes[k].colour_target = render_queue[i].shadow_map
                    /\ EndOf(k) < i

\* C28: every DRAW whose light is not a directional light has an empty shadow
\* map field.
C28_OnlyDirectionalCarriesMap ==
    Done =>
        \A i \in Positions :
            (IsDraw(i) /\ render_queue[i].light.type # "DIRECTIONAL")
                => render_queue[i].shadow_map = Null

Failed == pc = "failed"

C29_IdPool ==
    /\ \A a, b \in Live : a # b => objects[a].id # objects[b].id
    /\ \A o \in 1..Len(objects) :
        objects[o].id \in {GL_TEXTURE0 + i : i \in 1..PoolSize}
    /\ Cardinality(Live) + Len(id_pool_) = PoolSize
    /\ \A o \in Live : \A i \in 1..Len(id_pool_) : id_pool_[i] # objects[o].id
    /\ outcome.op = "create" =>
        /\ outcome.failed <=> outcome.live = PoolSize
        /\ outcome.failed => (Len(objects) = outcome.made /\ Cardinality(Live) = outcome.live)
        /\ ~outcome.failed => (Len(objects) = outcome.made + 1 /\ Len(objects) \in Live)

\* the pool found empty after an id went back to the pool and out again
C29_Witness ==
    /\ outcome.op = "create"
    /\ outcome.failed
    /\ \E a \in Live : \E b \in 1..Len(objects) :
        b \notin Live /\ objects[a].id = objects[b].id
    /\ \E o \in Live : objects[o].kind = "cube_map"

====
